---- MODULE Spec2Model ----
(***************************************************************************)
(* Labeled heterogeneous lists (lhlist) and the #[label] attribute that    *)
(* mints label identifiers.                                                *)
(*                                                                         *)
(* A label is identified by the position of its declaration; its Uid is    *)
(* the typenum numeral the attribute generated for it, kept as the         *)
(* sequence of its bits, innermost (first emitted) bit first.  A list is   *)
(* the sequence of its elements from head to tail, Nil being the empty     *)
(* sequence; an element is a LabeledValue: the label it carries and its    *)
(* payload.  Trait resolution is modelled by what the compiler computes:   *)
(* an associated type is an operator, and "an impl exists" is a predicate  *)
(* that follows the where-clauses of the impls.                            *)
(***************************************************************************)
EXTENDS Integers, Sequences, FiniteSets, TLC

\* Bounds of the model.
MaxDecl == 8
MaxLabels == 3
MaxLen == 3
MaxSetLen == 3
MaxMapLabels == 2
MaxMapLen == 2
MaxMaps == 2
MaxProcs == 2
MaxWrap == 2
MaxOpts == 1

VARIABLES
    counter,   \* INCREMENTAL_ID_COUNTER
    labels,    \* the labels declared so far, in declaration order
    list,      \* a list built with cons / lhlist!
    lhs,       \* an ordered set built from Nil with prepend and union
    rhs,       \* a second ordered set
    ret,       \* the last operation and what it returned
    iter,      \* the iterator borrowed from list, if any
    item,      \* the item the last call of next returned, if any
    calls,     \* the number of calls of next since the iterator was created
    collected, \* the list the last collect returned
    labelList, \* the target label list of the last accepted collect_into_labeled_hlist
    procs,     \* the expansions of #[label] in flight: where each stands, the id it got
    crates,    \* the numbers of labels declared when a new compiler process started
    parsed     \* the last declaration: its option keys, its error, whether its item parsed

iterVars == <<iter, item, calls, collected, labelList>>

mintVars == <<procs, crates, parsed>>

vars == <<counter, labels, list, lhs, rhs, ret, iter, item, calls, collected, labelList, procs, crates, parsed>>

\* Payloads: every label of the model has AssocType bool.
Values == BOOLEAN

Nil == <<>>
UTerm == <<>>
B0 == 0
B1 == 1

cons(head, tail) == <<head>> \o tail

LabeledValue(L, v) == [label |-> L, value |-> v]

\* No element: what ret holds when the operation returned no element.
NoElem == [label |-> 0, value |-> FALSE]

----------------------------------------------------------------------------
(* label_attribute: minting *)

RECURSIVE BitAnd(_, _)
BitAnd(a, b) ==
    IF a = 0 \/ b = 0 THEN 0
    ELSE (a % 2) * (b % 2) + 2 * BitAnd(a \div 2, b \div 2)

RECURSIVE NextPow(_, _)
NextPow(value, p) == IF p >= value THEN p ELSE NextPow(value, 2 * p)

next_power_of_two(value) == NextPow(value, 1)

RECURSIVE generate_uint_recurse(_, _, _)
generate_uint_recurse(target, curr_val, curr_toks) ==
    IF curr_val = 0 THEN curr_toks
    ELSE LET bit == IF BitAnd(target, curr_val) > 0 THEN B1 ELSE B0
         IN generate_uint_recurse(target, curr_val \div 2, Append(curr_toks, bit))

generate_uint_half(value) ==
    LET start == IF value > 0 THEN next_power_of_two(value) \div 2 ELSE 0
    IN generate_uint_recurse(value, start, UTerm)

generate_uint(value) ==
    LET start == IF value > 0 THEN next_power_of_two(value) ELSE 0
    IN generate_uint_recurse(value, start, UTerm)

\* fetch_add(1): the value read and the value left in the counter.
fetch_add_stuck(c) == [id |-> c, next |-> c]
fetch_add_wrap(c) == [id |-> c, next |-> (c + 1) % 4]
fetch_add(c) == [id |-> c, next |-> c + 1]

\* Unsigned::to_usize of a numeral.
RECURSIVE to_usize_rev(_)
to_usize_rev(u) ==
    IF u = UTerm THEN 0
    ELSE u[1] + 2 * to_usize_rev(Tail(u))

RECURSIVE to_usize(_)
to_usize(u) ==
    IF u = UTerm THEN 0
    ELSE 2 * to_usize(SubSeq(u, 1, Len(u) - 1)) + u[Len(u)]

\* The struct names of the declarations: the k-th is struct Label<k>.
Ident(k) == [ident |-> k]

\* stringify!(#name): the text of the identifier
stringify(name) == "Label" \o ToString(name.ident)

\* impl_label's name_str: the name option if given, the struct's name if not.
\* An option is <<>> for None and <<x>> for Some(x).
name_str(name, cust_name) ==
    IF cust_name # <<>> THEN cust_name[1] ELSE stringify(name)

Uid(L) == labels[L].uid

NAME(L) == labels[L].NAME

id(L) == to_usize(Uid(L))

Declared == 1..Len(labels)

----------------------------------------------------------------------------
(* label_attribute: parsing *)

\* A token: an identifier, a keyword, a literal or a punctuation mark.
Tok(kind, text) == [kind |-> kind, text |-> text]

\* parse::Result
Ok(v) == [ok |-> TRUE, v |-> v]

Err(msg) == [ok |-> FALSE, msg |-> msg]

LABEL_NAME_ID == "name"

CRATE_ID == "crate"

TYPE_IDS == <<"type", "assoc_type">>

\* TYPE_IDS.join(sep)
RECURSIVE join(_, _)
join(strs, sep) ==
    IF strs = <<>> THEN ""
    ELSE IF Len(strs) = 1 THEN strs[1]
    ELSE strs[1] \o sep \o join(Tail(strs), sep)

\* format!["expected {}, {}, or {}", TYPE_IDS.join(", "), CRATE_ID, LABEL_NAME_ID]
ExpectedKeys ==
    "expected " \o join(TYPE_IDS, ", ") \o ", " \o CRATE_ID \o ", or " \o LABEL_NAME_ID

\* let meta_name: syn::Ident = input.parse()?; an identifier is accepted,
\* every other token (a keyword, a literal) is the parser's own error.
Ident_parse(tok) ==
    IF tok.kind = "ident" THEN Ok(tok.text) ELSE Err("expected identifier")

\* LabelMeta::parse of key = value with a well-formed value
LabelMeta_parse(key) ==
    LET meta_name == IF key = Tok("keyword", "type") THEN Ok("type")
                     ELSE IF key = Tok("keyword", "crate") THEN Ok("crate")
                     ELSE Ident_parse(key)
    IN IF ~meta_name.ok THEN meta_name
       ELSE IF meta_name.v = LABEL_NAME_ID THEN Ok("CustomName")
       ELSE IF meta_name.v = CRATE_ID THEN Ok("CratePath")
       ELSE IF \E i \in 1..Len(TYPE_IDS) : TYPE_IDS[i] = meta_name.v THEN Ok("AssocType")
       ELSE Err(ExpectedKeys)

\* LabelOptions: each option is <<>> (None) or <<x>> (Some(x)); the values
\* written in the declarations of the model are name = "custom", type = bool
\* and crate = crate.
NoOptions == [name |-> <<>>, assoc_type |-> <<>>, crate_path |-> <<>>]

\* LabelOptions::parse: the first key that fails to parse is the error.
RECURSIVE LabelOptions_parse_from(_, _)
LabelOptions_parse_from(attr, opts) ==
    IF attr = <<>> THEN Ok(opts)
    ELSE LET meta == LabelMeta_parse(Head(attr))
         IN IF ~meta.ok THEN meta
            ELSE LabelOptions_parse_from(Tail(attr),
                     IF meta.v = "CustomName" THEN [opts EXCEPT !.name = <<"custom">>]
                     ELSE IF meta.v = "AssocType" THEN [opts EXCEPT !.assoc_type = <<"bool">>]
                     ELSE [opts EXCEPT !.crate_path = <<"crate">>])

LabelOptions_parse(attr) == LabelOptions_parse_from(attr, NoOptions)

\* LabelStruct::parse of an item without outer attributes: `struct`, the
\* name, `;`
LabelStruct_parse(tokens) ==
    IF tokens = <<>> \/ tokens[1] # Tok("keyword", "struct") THEN Err("expected struct")
    ELSE IF Len(tokens) < 2 \/ tokens[2].kind # "ident" THEN Err("expected identifier")
    ELSE IF Len(tokens) < 3 \/ tokens[3] # Tok("punct", ";") THEN Err("expected ;")
    ELSE Ok([name |-> tokens[2].text])

\* impl_label: the counter afterwards and the impl of Label generated
impl_label(label_options, label_struct, c) ==
    LET m == fetch_add(c)
    IN [next |-> m.next,
        generated |-> [uid |-> generate_uint(m.id),
                       NAME |-> name_str(label_struct.name, label_options.name)]]

\* label(attr, item): parse the options, parse the item, then impl_label;
\* a parse error is returned as the expansion and impl_label is not reached.
\* What is kept of a declaration after its expansion.
Parsed(attr, msg, unit) == [attr |-> attr, msg |-> msg, unit |-> unit]

label_mint_first(attr, tokens, c) ==
    LET label_options == LabelOptions_parse(attr)
        label_struct == LabelStruct_parse(tokens)
    IN IF ~label_options.ok THEN [ok |-> FALSE, msg |-> label_options.msg, next |-> fetch_add(c).next]
       ELSE IF ~label_struct.ok THEN [ok |-> FALSE, msg |-> label_struct.msg, next |-> fetch_add(c).next]
       ELSE LET r == impl_label(label_options.v, label_struct.v, c)
            IN [ok |-> TRUE, generated |-> r.generated, next |-> r.next]

label(attr, tokens, c) ==
    LET label_options == LabelOptions_parse(attr)
        label_struct == LabelStruct_parse(tokens)
    IN IF ~label_options.ok THEN [ok |-> FALSE, msg |-> label_options.msg, next |-> c]
       ELSE IF ~label_struct.ok THEN [ok |-> FALSE, msg |-> label_struct.msg, next |-> c]
       ELSE LET r == impl_label(label_options.v, label_struct.v, c)
            IN [ok |-> TRUE, generated |-> r.generated, next |-> r.next]

----------------------------------------------------------------------------
(* relation.rs *)

ToBool_swapped(b) == IF b = B1 THEN "False" ELSE "True"

ToBool(b) == IF b = B1 THEN "True" ELSE "False"

VALUE(b) == (b = "True")

\* typenum's IsEqual on two numerals: bit by bit down to the terminal.
RECURSIVE IsEqual(_, _)
IsEqual(a, b) ==
    IF a = UTerm /\ b = UTerm THEN B1
    ELSE IF a = UTerm \/ b = UTerm THEN B0
    ELSE IF a[Len(a)] # b[Len(b)] THEN B0
    ELSE IsEqual(SubSeq(a, 1, Len(a) - 1), SubSeq(b, 1, Len(b) - 1))

LabelEq(L, M) == ToBool(IsEqual(Uid(L), Uid(M)))

RECURSIVE Member(_, _)
RECURSIVE MemberMatch(_, _, _)
Member(l, TargetL) ==
    IF l = Nil THEN "False"
    ELSE MemberMatch(l, TargetL, LabelEq(Head(l).label, TargetL))

MemberMatch_headonly(l, TargetL, HeadMatch) ==
    IF HeadMatch = "True" THEN "True" ELSE "False"

MemberMatch(l, TargetL, HeadMatch) ==
    IF HeadMatch = "True" THEN "True" ELSE Member(Tail(l), TargetL)

\* cons.rs: Cons::has_label_typearg, Nil::has_label_typearg
has_label_typearg(l, TargetL) ==
    IF l = Nil THEN FALSE ELSE VALUE(Member(l, TargetL))

has_label(l, TargetL) ==
    IF l = Nil THEN FALSE ELSE has_label_typearg(l, TargetL)

----------------------------------------------------------------------------
(* lookup.rs *)

\* An impl of LookupElemByLabel<TargetL> exists for the list type.
RECURSIVE LookupElemByLabel(_, _)
RECURSIVE LookupElemByLabelMatch(_, _, _, _)
LookupElemByLabel(l, TargetL) ==
    /\ l # Nil
    /\ LookupElemByLabelMatch(l, TargetL, LabelEq(Head(l).label, TargetL),
                              Member(Tail(l), TargetL))

LookupElemByLabelMatch_total(l, TargetL, LabelMatch, TailMatch) == TRUE

LookupElemByLabelMatch(l, TargetL, LabelMatch, TailMatch) ==
    \/ LabelMatch = "True"
    \/ /\ LabelMatch = "False"
       /\ TailMatch = "True"
       /\ LookupElemByLabel(Tail(l), TargetL)

\* LookupElemByLabel::elem: the element the returned reference points to.
RECURSIVE elem(_, _)
RECURSIVE LookupElemByLabelMatch_elem(_, _, _, _)
elem(l, TargetL) ==
    LookupElemByLabelMatch_elem(l, TargetL, LabelEq(Head(l).label, TargetL),
                                Member(Tail(l), TargetL))

LookupElemByLabelMatch_elem_head(l, TargetL, LabelMatch, TailMatch) ==
    Head(l)

LookupElemByLabelMatch_elem(l, TargetL, LabelMatch, TailMatch) ==
    IF LabelMatch = "True" THEN Head(l) ELSE elem(Tail(l), TargetL)

\* An impl of LookupElemByLabelMut<TargetL> exists for the list type.
RECURSIVE LookupElemByLabelMut(_, _)
RECURSIVE LookupElemByLabelMutMatch(_, _, _, _)
LookupElemByLabelMut(l, TargetL) ==
    /\ l # Nil
    /\ LookupElemByLabel(l, TargetL)
    /\ LookupElemByLabelMutMatch(l, TargetL, LabelEq(Head(l).label, TargetL),
                                 Member(Tail(l), TargetL))

LookupElemByLabelMutMatch(l, TargetL, LabelMatch, TailMatch) ==
    /\ LookupElemByLabelMatch(l, TargetL, LabelMatch, TailMatch)
    /\ \/ LabelMatch = "True"
       \/ /\ LabelMatch = "False"
          /\ TailMatch = "True"
          /\ LookupElemByLabelMut(Tail(l), TargetL)

\* LookupElemByLabelMut::elem_mut: the place the returned mutable reference
\* points to, as the position of the node whose head it is.
RECURSIVE elem_mut(_, _)
RECURSIVE LookupElemByLabelMutMatch_elem_mut(_, _, _, _)
elem_mut(l, TargetL) ==
    LookupElemByLabelMutMatch_elem_mut(l, TargetL, LabelEq(Head(l).label, TargetL),
                                       Member(Tail(l), TargetL))

LookupElemByLabelMutMatch_elem_mut_head(l, TargetL, LabelMatch, TailMatch) ==
    1

LookupElemByLabelMutMatch_elem_mut_tail_first(l, TargetL, LabelMatch, TailMatch) ==
    IF TailMatch = "True" THEN 1 + elem_mut(Tail(l), TargetL) ELSE 1

LookupElemByLabelMutMatch_elem_mut(l, TargetL, LabelMatch, TailMatch) ==
    IF LabelMatch = "True" THEN 1 ELSE 1 + elem_mut(Tail(l), TargetL)

\* label.rs: Value for LabeledValue
value_ref(e) == e.value

\* cons.rs: Cons::value, Index::index
value(l, TargetL) == value_ref(elem(l, TargetL))

index(l, TargetL) == value_ref(elem(l, TargetL))

----------------------------------------------------------------------------
(* ordered_set.rs *)

\* An impl of OrderedHSet exists for the list type.
RECURSIVE OrderedHSet(_)
OrderedHSet(l) ==
    \/ l = Nil
    \/ /\ l # Nil
       /\ OrderedHSet(Tail(l))
       /\ Member(Tail(l), Head(l).label) = "False"

\* The bounds of OrderedHSet::prepend.
prepend_bounds_none(self, h) == OrderedHSet(self)

prepend_bounds(self, h) ==
    /\ OrderedHSet(self)
    /\ Member(self, h.label) = "False"

prepend_drop(self, h) == [head |-> h, tail |-> Nil]

prepend(self, h) == [head |-> h, tail |-> self]

\* Union::union
RECURSIVE union(_, _)
union_rhs_first(self, r) == r \o self

RECURSIVE union_interleave(_, _)
union_interleave(self, r) ==
    IF self = Nil THEN r
    ELSE cons(Head(self), union_interleave(r, Tail(self)))

union_norec(self, r) ==
    IF self = Nil THEN r
    ELSE cons(Head(self), r)

union(self, r) ==
    IF self = Nil THEN r
    ELSE cons(Head(self), union(Tail(self), r))

\* An impl of Union<Rhs> exists for the list type.
RECURSIVE Union(_, _)
Union_unchecked(self, r) == OrderedHSet(r)

Union(self, r) ==
    IF self = Nil THEN OrderedHSet(r)
    ELSE /\ OrderedHSet(Tail(self))
         /\ Union(Tail(self), r)
         /\ OrderedHSet(r)
         /\ OrderedHSet(cons(Head(self), union(Tail(self), r)))

\* The bounds of a call self.union(rhs).
union_bounds(self, r) ==
    /\ OrderedHSet(r)
    /\ Union(self, r)
    /\ OrderedHSet(self)

\* Len::LEN
LEN_flat(l) == IF l = Nil THEN 0 ELSE 1

RECURSIVE LEN(_)
LEN(l) == IF l = Nil THEN 0 ELSE 1 + LEN(Tail(l))

\* Len::len(&self)
len(self) == LEN(self)

----------------------------------------------------------------------------
(* label.rs *)

\* Label::AssocType: every label of the model is declared with type = bool.
AssocType(L) == "bool"

\* A type that implements Label: a declared label inside wrappers, the
\* outermost first.
Wrapped(wrappers, L) == [wrappers |-> wrappers, label |-> L]

WrapperSeqs == UNION {[1..n -> {"PhantomData", "LabeledValue"}] : n \in 0..MaxWrap}

LabelTypes == {Wrapped(w, L) : w \in WrapperSeqs, L \in 1..Len(labels)}

\* The type of an element of a labeled list.
TypeOf(e) == Wrapped(<<"LabeledValue">>, e.label)

\* Label::NAME, Label::AssocType and Label::Uid: of the declaration for a
\* declared label, of the wrapped type for PhantomData and LabeledValue.
RECURSIVE Label_NAME(_)
Label_NAME(T) ==
    IF T.wrappers = <<>> THEN NAME(T.label)
    ELSE Label_NAME(Wrapped(Tail(T.wrappers), T.label))

RECURSIVE Label_AssocType(_)
Label_AssocType(T) ==
    IF T.wrappers = <<>> THEN AssocType(T.label)
    ELSE Label_AssocType(Wrapped(Tail(T.wrappers), T.label))

RECURSIVE Label_Uid_own(_)
Label_Uid_own(T) ==
    IF T.wrappers = <<>> THEN Uid(T.label)
    ELSE Append(Label_Uid_own(Wrapped(Tail(T.wrappers), T.label)), B0)

RECURSIVE Label_Uid(_)
Label_Uid(T) ==
    IF T.wrappers = <<>> THEN Uid(T.label)
    ELSE Label_Uid(Wrapped(Tail(T.wrappers), T.label))

\* LabelEq between any two types that implement Label
LabelEq_wrapped(T, U) == ToBool(IsEqual(Label_Uid(T), Label_Uid(U)))

\* BuildStrLabels::build_labels(v, idx): the vector afterwards, and whether
\* the assertions held (v is indexed from 1, idx from 0)
RECURSIVE build_labels_same_idx(_, _, _)
build_labels_same_idx(l, v, idx) ==
    IF l = Nil THEN [v |-> v, asserts |-> idx = Len(v)]
    ELSE IF ~(idx < Len(v)) THEN [v |-> v, asserts |-> FALSE]
    ELSE build_labels_same_idx(Tail(l), [v EXCEPT ![idx + 1] = Label_NAME(TypeOf(Head(l)))], idx)

RECURSIVE build_labels(_, _, _)
build_labels(l, v, idx) ==
    IF l = Nil THEN [v |-> v, asserts |-> idx = Len(v)]
    ELSE IF ~(idx < Len(v)) THEN [v |-> v, asserts |-> FALSE]
    ELSE build_labels(Tail(l), [v EXCEPT ![idx + 1] = Label_NAME(TypeOf(Head(l)))], idx + 1)

\* StrLabels::static_labels
static_labels(l) ==
    IF l = Nil THEN [v |-> <<>>, asserts |-> TRUE]
    ELSE build_labels(l, [i \in 1..LEN(l) |-> ""], 0)

\* StrLabels::labels(&self)
StrLabels_labels(self) == static_labels(self)

----------------------------------------------------------------------------
(* iter.rs *)

\* An iterator is the list it still has to go over (a reference to a suffix
\* of the borrowed list) and its adapter, a cons-list of MapAdapters with the
\* one added last at the head.
with_adapter(kind, l, adapter) == [kind |-> kind, list |-> l, adapter |-> adapter]

ConsIterator_new(l) == with_adapter("cons", l, Nil)

ValuesIterator_new(l) == with_adapter("values", l, Nil)

\* No iterator, and an iterator that was moved into a collect.
NoIter == with_adapter("none", Nil, Nil)
Moved == with_adapter("moved", Nil, Nil)

\* The type of the input of the adapter: &H for a ConsIterator over labeled
\* values, &L::AssocType for a ValuesIterator.
InputType(it) == IF it.kind = "cons" THEN "&LabeledValue" ELSE "&bool"

\* The input of the adapter at the head of the list.
Input(it) == IF it.kind = "cons" THEN Head(it.list) ELSE Head(it.list).value

\* The function objects given to map.  Not is implemented for &bool, bool
\* and &LabeledValue and returns a bool; Count is implemented for every type,
\* counts its calls in its own state and returns the count.
MapFuncs == {[fn |-> "Not", n |-> 0], [fn |-> "Count", n |-> 0]}

\* Yes is implemented for the types Not is implemented for and returns true
\* whatever it is given.
ChainFuncs == MapFuncs \cup {[fn |-> "Yes", n |-> 0]}

\* An impl of MapFunc<T> exists for the function object.
MapFunc(f, T) ==
    IF f.fn = "Count" THEN TRUE ELSE T \in {"&bool", "bool", "&LabeledValue"}

MapFunc_Output(f, T) == IF f.fn = "Count" THEN "usize" ELSE "bool"

\* MapFunc::call(&mut self, item): the output and the function object after
\* the call.
call(f, T, x) ==
    IF f.fn = "Count" THEN [out |-> f.n + 1, f |-> [f EXCEPT !.n = f.n + 1]]
    ELSE IF f.fn = "Yes" THEN [out |-> TRUE, f |-> f]
    ELSE [out |-> IF T = "&LabeledValue" THEN ~x.value ELSE ~x, f |-> f]

MapAdapter(f) == [f |-> f]

\* An impl of Adapter<T> exists for the adapter, and its Output.
RECURSIVE Adapter(_, _)
RECURSIVE Adapter_Output(_, _)
Adapter(a, T) ==
    IF a = Nil THEN TRUE
    ELSE /\ Adapter(Tail(a), T)
         /\ MapFunc(Head(a).f, Adapter_Output(Tail(a), T))

Adapter_Output(a, T) ==
    IF a = Nil THEN T
    ELSE MapFunc_Output(Head(a).f, Adapter_Output(Tail(a), T))

\* MapAdapter::adapt
MapAdapter_adapt(m, T, input) ==
    LET r == call(m.f, T, input)
    IN [out |-> r.out, adapter |-> MapAdapter(r.f)]

\* Adapter::adapt(&mut self, input): the output and the adapter after the call.
adapt_head_only(a, T, input) ==
    IF a = Nil THEN [out |-> input, adapter |-> Nil]
    ELSE LET h == MapAdapter_adapt(Head(a), T, input)
         IN [out |-> h.out, adapter |-> cons(h.adapter, Tail(a))]

RECURSIVE adapt(_, _, _)
adapt(a, T, input) ==
    IF a = Nil THEN [out |-> input, adapter |-> Nil]
    ELSE LET t == adapt(Tail(a), T, input)
             h == MapAdapter_adapt(Head(a), Adapter_Output(Tail(a), T), t.out)
         IN [out |-> h.out, adapter |-> cons(h.adapter, t.adapter)]

\* The bounds of the impl block that holds next, map and
\* collect_into_labeled_hlist: the list is a Cons and A: Adapter<&H>.
next_bounds(it) ==
    /\ it.kind \in {"cons", "values"}
    /\ it.list # Nil
    /\ Adapter(it.adapter, InputType(it))

\* ConsIterator::next, ValuesIterator::next
next_stay(it) ==
    LET r == adapt(it.adapter, InputType(it), Input(it))
    IN [item |-> r.out, iter |-> with_adapter(it.kind, it.list, r.adapter)]

next_copy(it) ==
    LET r == adapt(it.adapter, InputType(it), Input(it))
    IN [item |-> r.out, iter |-> with_adapter(it.kind, Tail(it.list), it.adapter)]

next(it) ==
    LET r == adapt(it.adapter, InputType(it), Input(it))
    IN [item |-> r.out, iter |-> with_adapter(it.kind, Tail(it.list), r.adapter)]

\* ConsIterator::map, ValuesIterator::map
map_bounds(it, f) ==
    /\ next_bounds(it)
    /\ MapFunc(f, Adapter_Output(it.adapter, InputType(it)))

map(it, f) == with_adapter(it.kind, it.list, cons(MapAdapter(f), it.adapter))

\* An impl of CollectIntoHList exists for the iterator.
RECURSIVE CollectIntoHList(_)
CollectIntoHList(it) ==
    IF it.list = Nil THEN TRUE
    ELSE /\ Adapter(it.adapter, InputType(it))
         /\ CollectIntoHList(with_adapter(it.kind, Tail(it.list), it.adapter))

\* CollectIntoHList::collect_into_hlist
RECURSIVE collect_into_hlist_rev(_)
collect_into_hlist_rev(it) ==
    IF it.list = Nil THEN Nil
    ELSE LET r == next(it)
         IN Append(collect_into_hlist_rev(r.iter), r.item)

RECURSIVE collect_into_hlist(_)
collect_into_hlist(it) ==
    IF it.list = Nil THEN Nil
    ELSE LET r == next(it)
         IN cons(r.item, collect_into_hlist(r.iter))

\* An impl of CollectIntoLabeledHList<LabelList> exists for the iterator.
RECURSIVE CollectIntoLabeledHList(_, _)
CollectIntoLabeledHList(it, LabelList) ==
    IF it.list = Nil THEN LabelList = Nil
    ELSE /\ LabelList # Nil
         /\ Adapter(it.adapter, InputType(it))
         /\ Adapter_Output(it.adapter, InputType(it)) = AssocType(Head(LabelList))
         /\ CollectIntoLabeledHList(with_adapter(it.kind, Tail(it.list), it.adapter),
                                    Tail(LabelList))

\* CollectIntoLabeledHList::collect_into_labeled_hlist
RECURSIVE collect_into_labeled_hlist_keep(_, _)
collect_into_labeled_hlist_keep(it, LabelList) ==
    IF it.list = Nil THEN Nil
    ELSE LET r == next(it)
         IN cons(LabeledValue(Head(it.list).label, r.item),
                 collect_into_labeled_hlist_keep(r.iter, Tail(LabelList)))

RECURSIVE collect_into_labeled_hlist(_, _)
collect_into_labeled_hlist(it, LabelList) ==
    IF it.list = Nil THEN Nil
    ELSE LET r == next(it)
         IN cons(LabeledValue(Head(LabelList), r.item),
                 collect_into_labeled_hlist(r.iter, Tail(LabelList)))

\* The revision of the iterator module in src/src: Labeled<L> is its labeled
\* value, and CollectIntoLabeledHList has no label-list parameter.
Labeled(L, v) == [label |-> L, value |-> v]

\* An impl of CollectIntoLabeledHList exists for the iterator (src/src).
CollectIntoLabeledHList_src(it) ==
    IF it.list = Nil THEN TRUE
    ELSE /\ Adapter(it.adapter, InputType(it))
         /\ Adapter_Output(it.adapter, InputType(it)) = AssocType(Head(it.list).label)
         /\ CollectIntoHList(with_adapter(it.kind, Tail(it.list), it.adapter))

\* CollectIntoLabeledHList::collect_into_labeled_hlist (src/src)
collect_into_labeled_hlist_src(it) ==
    IF it.list = Nil THEN Nil
    ELSE LET r == next(it)
         IN cons(Labeled(Head(it.list).label, r.item), collect_into_hlist(r.iter))

\* The expansions of #[label] that may run at once, and where one stands:
\* before its fetch_add, or past it with the id it got.
Procs == 1..MaxProcs

Idle == [pc |-> "idle", id |-> 0]

Fetched(n) == [pc |-> "fetched", id |-> n]

----------------------------------------------------------------------------
Result(op, target, status, e, flag) ==
    [op |-> op, target |-> target, status |-> status, elem |-> e, flag |-> flag]

Init ==
    /\ counter = 0
    /\ labels = <<>>
    /\ list = Nil
    /\ lhs = Nil
    /\ rhs = Nil
    /\ ret = Result("none", 0, "ok", NoElem, FALSE)
    /\ iter = NoIter
    /\ item = <<>>
    /\ calls = 0
    /\ collected = Nil
    /\ labelList = Nil
    /\ procs = [p \in Procs |-> Idle]
    /\ crates = {}
    /\ parsed = Parsed(<<>>, "", TRUE)

\* #[label] struct Name;
Declare(limit) ==
    /\ counter < limit
    /\ LET m == fetch_add(counter)
       IN /\ counter' = m.next
          /\ labels' = Append(labels, [uid |-> generate_uint(m.id),
                                    NAME |-> name_str(Ident(Len(labels) + 1), <<>>)])
    /\ ret' = Result("label", Len(labels) + 1, "ok", NoElem, FALSE)
    /\ UNCHANGED <<list, lhs, rhs>>
    /\ UNCHANGED <<iterVars, mintVars>>

\* cons(labeled(L, value), list)
Cons(L, v) ==
    /\ Len(list) < MaxLen
    /\ list' = cons(LabeledValue(L, v), list)
    /\ ret' = Result("cons", L, "ok", NoElem, FALSE)
    /\ UNCHANGED <<counter, labels, lhs, rhs>>
    /\ UNCHANGED <<iterVars, mintVars>>

\* <L as LabelEq<M>>::Output::VALUE
EvalLabelEq(L, M) ==
    /\ ret' = Result("label_eq", L, "ok", [label |-> M, value |-> FALSE], VALUE(LabelEq(L, M)))
    /\ UNCHANGED <<counter, labels, list, lhs, rhs>>
    /\ UNCHANGED <<iterVars, mintVars>>

\* list.has_label(TargetL)
HasLabel(TargetL) ==
    /\ ret' = Result("has_label", TargetL, "ok", NoElem, has_label(list, TargetL))
    /\ UNCHANGED <<counter, labels, list, lhs, rhs>>
    /\ UNCHANGED <<iterVars, mintVars>>

\* list.elem::<TargetL>(), list.value::<TargetL>(), list[TargetL]
Lookup(op, TargetL) ==
    /\ IF LookupElemByLabel(list, TargetL)
       THEN ret' = Result(op, TargetL, "ok",
                          IF op = "elem" THEN elem(list, TargetL)
                          ELSE IF op = "value"
                               THEN [label |-> TargetL, value |-> value(list, TargetL)]
                               ELSE [label |-> TargetL, value |-> index(list, TargetL)],
                          FALSE)
       ELSE ret' = Result(op, TargetL, "rejected", NoElem, FALSE)
    /\ UNCHANGED <<counter, labels, list, lhs, rhs>>
    /\ UNCHANGED <<iterVars, mintVars>>

Elem(TargetL) == Lookup("elem", TargetL)
Value(TargetL) == Lookup("value", TargetL)
Index(TargetL) == Lookup("index", TargetL)

\* *list.elem_mut::<TargetL>() = labeled(.., v), *list.value_mut::<TargetL>() = v,
\* list[TargetL] = v.  The element type is fixed by the list type, so a write
\* through elem_mut stores a LabeledValue of the label already there.
LookupMut(op, TargetL, v) ==
    /\ IF LookupElemByLabelMut(list, TargetL)
       THEN LET place == elem_mut(list, TargetL)
            IN /\ list' = [list EXCEPT ![place].value = v]
               /\ ret' = Result(op, TargetL, "ok", LabeledValue(TargetL, v), FALSE)
       ELSE /\ list' = list
            /\ ret' = Result(op, TargetL, "rejected", NoElem, FALSE)
    /\ UNCHANGED <<counter, labels, lhs, rhs>>
    /\ UNCHANGED <<iterVars, mintVars>>

ElemMut(TargetL, v) == LookupMut("elem_mut", TargetL, v)
ValueMut(TargetL, v) == LookupMut("value_mut", TargetL, v)
IndexMut(TargetL, v) == LookupMut("index_mut", TargetL, v)

\* set.prepend(labeled(L, v)) on lhs (left) or on rhs
Prepend(left, L, v) ==
    /\ Len(lhs) + Len(rhs) < MaxSetLen
    /\ LET self == IF left THEN lhs ELSE rhs
           h == LabeledValue(L, v)
       IN IF prepend_bounds(self, h)
          THEN LET c == prepend(self, h)
               IN /\ lhs' = IF left THEN cons(c.head, c.tail) ELSE lhs
                  /\ rhs' = IF left THEN rhs ELSE cons(c.head, c.tail)
                  /\ ret' = Result("prepend", L, "ok", h, left)
          ELSE /\ UNCHANGED <<lhs, rhs>>
               /\ ret' = Result("prepend", L, "rejected", h, left)
    /\ UNCHANGED <<counter, labels, list>>
    /\ UNCHANGED <<iterVars, mintVars>>

\* lhs.union(rhs): both operands are moved, the result is kept in lhs.
\* ret.target records the length of the left operand.
UnionOp ==
    /\ IF union_bounds(lhs, rhs)
       THEN /\ lhs' = union(lhs, rhs)
            /\ rhs' = Nil
            /\ ret' = Result("union", Len(lhs), "ok", NoElem, FALSE)
       ELSE /\ UNCHANGED <<lhs, rhs>>
            /\ ret' = Result("union", Len(lhs), "rejected", NoElem, FALSE)
    /\ UNCHANGED <<counter, labels, list>>
    /\ UNCHANGED <<iterVars, mintVars>>

\* Label declarations and label equality.
Next ==
    \/ Declare(MaxDecl)
    \/ \E L \in Declared, M \in Declared : EvalLabelEq(L, M)

Spec == Init /\ [][Next]_vars

\* Lists of labeled values: construction, membership and lookup.
NextList ==
    \/ Declare(MaxLabels)
    \/ \E L \in Declared, v \in Values : Cons(L, v)
    \/ \E TargetL \in Declared : HasLabel(TargetL)
    \/ \E TargetL \in Declared : Elem(TargetL)
    \/ \E TargetL \in Declared : Value(TargetL)
    \/ \E TargetL \in Declared : Index(TargetL)

SpecList == Init /\ [][NextList]_vars

\* Lists of labeled values: writes through a label.
NextMut ==
    \/ Declare(MaxLabels)
    \/ \E L \in Declared, v \in Values : Cons(L, v)
    \/ \E TargetL \in Declared, v \in Values : ElemMut(TargetL, v)
    \/ \E TargetL \in Declared, v \in Values : ValueMut(TargetL, v)
    \/ \E TargetL \in Declared, v \in Values : IndexMut(TargetL, v)

SpecMut == Init /\ [][NextMut]_vars

\* Ordered sets: prepend and union.
NextSet ==
    \/ Declare(MaxLabels)
    \/ \E left \in BOOLEAN, L \in Declared, v \in Values : Prepend(left, L, v)
    \/ UnionOp

SpecSet == Init /\ [][NextSet]_vars

\* cons(labeled(L, v), list) while list is not borrowed
ConsOwned(L, v) ==
    /\ iter = NoIter
    /\ Cons(L, v)

\* list.iter(): a new iterator; an earlier one is dropped.
Iter ==
    /\ iter' = ConsIterator_new(list)
    /\ item' = <<>>
    /\ calls' = 0
    /\ collected' = Nil
    /\ labelList' = Nil
    /\ ret' = Result("iter", 0, "ok", NoElem, FALSE)
    /\ UNCHANGED <<counter, labels, list, lhs, rhs>>
    /\ UNCHANGED mintVars

\* list.iter_values()
IterValues ==
    /\ iter' = ValuesIterator_new(list)
    /\ item' = <<>>
    /\ calls' = 0
    /\ collected' = Nil
    /\ labelList' = Nil
    /\ ret' = Result("iter_values", 0, "ok", NoElem, FALSE)
    /\ UNCHANGED <<counter, labels, list, lhs, rhs>>
    /\ UNCHANGED mintVars

\* let (item, iter) = iter.next();
NextItem ==
    /\ iter.kind \in {"cons", "values"}
    /\ IF next_bounds(iter)
       THEN LET r == next(iter)
            IN /\ item' = <<r.item>>
               /\ iter' = r.iter
               /\ calls' = calls + 1
               /\ ret' = Result("next", 0, "ok", NoElem, FALSE)
       ELSE /\ UNCHANGED <<item, iter, calls>>
            /\ ret' = Result("next", 0, "rejected", NoElem, FALSE)
    /\ UNCHANGED <<counter, labels, list, lhs, rhs, collected, labelList>>
    /\ UNCHANGED mintVars

\* list.len()
LenOp ==
    /\ ret' = Result("len", len(list), "ok", NoElem, FALSE)
    /\ UNCHANGED <<counter, labels, list, lhs, rhs>>
    /\ UNCHANGED <<iterVars, mintVars>>

\* Lists and their traversal with next.
NextIter ==
    \/ Declare(MaxLabels)
    \/ \E L \in Declared, v \in Values : ConsOwned(L, v)
    \/ LenOp
    \/ Iter
    \/ IterValues
    \/ NextItem

SpecIter == Init /\ [][NextIter]_vars

\* cons(labeled(L, v), list) on the short lists that are mapped and collected
ConsShort(L, v) ==
    /\ Len(list) < MaxMapLen
    /\ ConsOwned(L, v)

\* let iter = iter.map(f);
Map(f) ==
    /\ iter.kind \in {"cons", "values"}
    /\ Len(iter.adapter) < MaxMaps
    /\ IF map_bounds(iter, f)
       THEN /\ iter' = map(iter, f)
            /\ ret' = Result("map", Len(iter'.adapter), "ok", NoElem, iter.kind = "values")
       ELSE /\ iter' = iter
            /\ ret' = Result("map", Len(iter.adapter), "rejected", NoElem, iter.kind = "values")
    /\ item' = <<>>
    /\ collected' = Nil
    /\ labelList' = Nil
    /\ UNCHANGED <<counter, labels, list, lhs, rhs, calls>>
    /\ UNCHANGED mintVars

\* let collected = iter.collect_into_hlist();
Collect ==
    /\ iter.kind \in {"cons", "values"}
    /\ IF CollectIntoHList(iter)
       THEN /\ collected' = collect_into_hlist(iter)
            /\ iter' = Moved
            /\ calls' = calls + Len(iter.list)
            /\ ret' = Result("collect_into_hlist", Len(iter.adapter), "ok", NoElem,
                             iter.kind = "values")
       ELSE /\ UNCHANGED <<iter, calls>>
            /\ collected' = Nil
            /\ ret' = Result("collect_into_hlist", Len(iter.adapter), "rejected", NoElem,
                             iter.kind = "values")
    /\ item' = <<>>
    /\ labelList' = Nil
    /\ UNCHANGED <<counter, labels, list, lhs, rhs>>
    /\ UNCHANGED mintVars

\* The target label lists: Labels![T1, ..., Tn] over the declared labels.
LabelLists == UNION {[1..n -> Declared] : n \in 0..MaxMapLen}

\* let collected = iter.collect_into_labeled_hlist::<LabelList>();
CollectLabeled(LabelList) ==
    /\ iter.kind \in {"cons", "values"}
    /\ IF CollectIntoLabeledHList(iter, LabelList)
       THEN /\ collected' = collect_into_labeled_hlist(iter, LabelList)
            /\ labelList' = LabelList
            /\ iter' = Moved
            /\ calls' = calls + Len(iter.list)
            /\ ret' = Result("collect_into_labeled_hlist", Len(LabelList), "ok", NoElem,
                             iter.kind = "values")
       ELSE /\ UNCHANGED <<iter, calls>>
            /\ collected' = Nil
            /\ labelList' = Nil
            /\ ret' = Result("collect_into_labeled_hlist", Len(LabelList), "rejected", NoElem,
                             iter.kind = "values")
    /\ item' = <<>>
    /\ UNCHANGED <<counter, labels, list, lhs, rhs>>
    /\ UNCHANGED mintVars

\* Short lists, mapped and collected.
NextMap ==
    \/ Declare(MaxMapLabels)
    \/ \E L \in Declared, v \in Values : ConsShort(L, v)
    \/ Iter
    \/ IterValues
    \/ \E f \in MapFuncs : Map(f)
    \/ Collect
    \/ \E LabelList \in LabelLists : CollectLabeled(LabelList)

SpecMap == Init /\ [][NextMap]_vars

\* impl_label up to and including
\* let id = INCREMENTAL_ID_COUNTER.fetch_add(1, Ordering::SeqCst);
FetchAdd_torn(p) ==
    /\ procs[p].pc = "idle"
    /\ counter < MaxDecl
    /\ \E c \in {counter} \cup {procs[q].id : q \in {r \in Procs : procs[r].pc = "fetched"}} :
          LET m == fetch_add(c)
          IN /\ counter' = m.next
             /\ procs' = [procs EXCEPT ![p] = Fetched(m.id)]
    /\ ret' = Result("fetch_add", p, "ok", NoElem, FALSE)
    /\ UNCHANGED <<labels, list, lhs, rhs, crates, parsed>>
    /\ UNCHANGED iterVars

FetchAdd(p) ==
    /\ procs[p].pc = "idle"
    /\ counter < MaxDecl
    /\ LET m == fetch_add(counter)
       IN /\ counter' = m.next
          /\ procs' = [procs EXCEPT ![p] = Fetched(m.id)]
    /\ ret' = Result("fetch_add", p, "ok", NoElem, FALSE)
    /\ UNCHANGED <<labels, list, lhs, rhs, crates, parsed>>
    /\ UNCHANGED iterVars

\* the rest of impl_label: the impl of Label with Uid = generate_uint(id)
Emit(p) ==
    /\ procs[p].pc = "fetched"
    /\ labels' = Append(labels, [uid |-> generate_uint(procs[p].id),
                                NAME |-> name_str(Ident(Len(labels) + 1), <<>>)])
    /\ procs' = [procs EXCEPT ![p] = Idle]
    /\ ret' = Result("label", Len(labels) + 1, "ok", NoElem, FALSE)
    /\ UNCHANGED <<counter, list, lhs, rhs, crates, parsed>>
    /\ UNCHANGED iterVars

\* Declarations expanded concurrently.
NextRace ==
    \/ \E p \in Procs : FetchAdd(p)
    \/ \E p \in Procs : Emit(p)

SpecRace == Init /\ [][NextRace]_vars

\* #[label] struct Name; in a program of at most MaxLabels labels
DeclareIn ==
    /\ Len(labels) < MaxLabels
    /\ Declare(MaxLabels)

\* The compiler starts on the next crate of the program: a new process, in
\* which the macro's static INCREMENTAL_ID_COUNTER is initialized again.
CompileCrate ==
    /\ Len(labels) \notin crates
    /\ Len(labels) < MaxLabels
    /\ counter' = 0
    /\ crates' = crates \cup {Len(labels)}
    /\ ret' = Result("crate", Cardinality(crates') + 1, "ok", NoElem, FALSE)
    /\ UNCHANGED <<labels, list, lhs, rhs, procs, parsed>>
    /\ UNCHANGED iterVars

\* The crate a label is declared in.
crate_of(L) == 1 + Cardinality({n \in crates : n < L})

\* A program of several crates, each compiled by its own process.
NextCrates ==
    \/ DeclareIn
    \/ CompileCrate
    \/ \E L \in Declared, M \in Declared : EvalLabelEq(L, M)

SpecCrates == Init /\ [][NextCrates]_vars

\* The name options of the declarations.
CustNames == {<<>>, <<"custom">>}

\* #[label(name = "...")] struct Name;
DeclareNamed(limit, cust_name) ==
    /\ counter < limit
    /\ LET m == fetch_add(counter)
       IN /\ counter' = m.next
          /\ labels' = Append(labels, [uid |-> generate_uint(m.id),
                                       NAME |-> name_str(Ident(Len(labels) + 1), cust_name)])
    /\ ret' = Result("label", Len(labels) + 1, "ok", NoElem, FALSE)
    /\ UNCHANGED <<list, lhs, rhs>>
    /\ UNCHANGED <<iterVars, mintVars>>

\* <T as LabelEq<U>>::Output::VALUE, and T::NAME == U::NAME
EvalLabelEqWrapped(T, U) ==
    /\ ret' = Result("label_eq_wrapped", T, "ok", U, VALUE(LabelEq_wrapped(T, U)))
    /\ UNCHANGED <<counter, labels, list, lhs, rhs>>
    /\ UNCHANGED <<iterVars, mintVars>>

\* Labels and the types that wrap them.
NextWrap ==
    \/ \E cust_name \in CustNames : DeclareNamed(MaxMapLabels, cust_name)
    \/ \E T \in LabelTypes, U \in {V \in LabelTypes : Len(V.wrappers) <= 1} :
          EvalLabelEqWrapped(T, U)

SpecWrap == Init /\ [][NextWrap]_vars

\* list.labels(): the vector, and whether the assertions held
StrLabelsOp ==
    /\ LET r == StrLabels_labels(list)
       IN ret' = Result("labels", Len(r.v), IF r.asserts THEN "ok" ELSE "panicked", r.v, FALSE)
    /\ UNCHANGED <<counter, labels, list, lhs, rhs>>
    /\ UNCHANGED <<iterVars, mintVars>>

\* Named labels, lists of them and the names of their labels.
NextNames ==
    \/ \E cust_name \in CustNames : DeclareNamed(MaxLabels, cust_name)
    \/ \E L \in Declared, v \in Values : Cons(L, v)
    \/ StrLabelsOp

SpecNames == Init /\ [][NextNames]_vars

\* The option keys written in the declarations of the model.
Keys ==
    {Tok("ident", "name"), Tok("keyword", "type"), Tok("ident", "assoc_type"),
     Tok("keyword", "crate"), Tok("ident", "nme"), Tok("keyword", "fn"),
     Tok("literal", "name")}

\* The option lists: up to MaxOpts keys.
Attrs == UNION {[1..n -> Keys] : n \in 0..MaxOpts}

\* The items the attribute is put on: struct Name; struct Name {} enum Name;
Items(name) ==
    {<<Tok("keyword", "struct"), Tok("ident", name), Tok("punct", ";")>>,
     <<Tok("keyword", "struct"), Tok("ident", name), Tok("punct", "{"), Tok("punct", "}")>>,
     <<Tok("keyword", "enum"), Tok("ident", name), Tok("punct", ";")>>}

\* #[label(attr)] item
LabelOp(attr, tokens) ==
    /\ Len(labels) < MaxMapLabels
    /\ LET r == label(attr, tokens, counter)
       IN /\ counter' = r.next
          /\ labels' = IF r.ok THEN Append(labels, r.generated) ELSE labels
          /\ parsed' = Parsed(attr, IF r.ok THEN "" ELSE r.msg, LabelStruct_parse(tokens).ok)
          /\ ret' = Result("label", Len(labels) + 1, IF r.ok THEN "ok" ELSE "rejected",
                           NoElem, FALSE)
    /\ UNCHANGED <<list, lhs, rhs, procs, crates>>
    /\ UNCHANGED iterVars

\* Declarations as they are written, well-formed or not.
NextParse ==
    \/ \E attr \in Attrs, tokens \in Items(Ident(Len(labels) + 1)) : LabelOp(attr, tokens)
    \/ \E L \in Declared, M \in Declared : EvalLabelEq(L, M)

SpecParse == Init /\ [][NextParse]_vars

\* L::id()
IdOp(L) ==
    /\ ret' = Result("id", id(L), "ok", [label |-> L, value |-> FALSE], FALSE)
    /\ UNCHANGED <<counter, labels, list, lhs, rhs>>
    /\ UNCHANGED <<iterVars, mintVars>>

\* The numerals of the labels: generated, decoded and compared.
NextUint ==
    \/ Declare(MaxDecl)
    \/ \E L \in Declared, M \in Declared : EvalLabelEq(L, M)
    \/ \E L \in Declared : IdOp(L)

SpecUint == Init /\ [][NextUint]_vars

\* Lists in which a label may occur more than once: reads and writes
\* through a label.
NextDup ==
    \/ Declare(MaxMapLabels)
    \/ \E L \in Declared, v \in Values : Cons(L, v)
    \/ \E TargetL \in Declared : Elem(TargetL)
    \/ \E TargetL \in Declared : Value(TargetL)
    \/ \E TargetL \in Declared, v \in Values : ElemMut(TargetL, v)
    \/ \E TargetL \in Declared, v \in Values : ValueMut(TargetL, v)

SpecDup == Init /\ [][NextDup]_vars

\* Chains of maps, delivered one element at a time or collected.
NextChain ==
    \/ Declare(MaxMapLabels)
    \/ \E L \in Declared, v \in Values : ConsShort(L, v)
    \/ Iter
    \/ IterValues
    \/ \E f \in ChainFuncs : Map(f)
    \/ NextItem
    \/ Collect

SpecChain == Init /\ [][NextChain]_vars

\* let collected = iter.collect_into_labeled_hlist(); in the src/src revision
CollectLabeledSrc ==
    /\ iter.kind \in {"cons", "values"}
    /\ IF CollectIntoLabeledHList_src(iter)
       THEN /\ collected' = collect_into_labeled_hlist_src(iter)
            /\ iter' = Moved
            /\ calls' = calls + Len(iter.list)
            /\ ret' = Result("collect_into_labeled_hlist_src", Len(iter.list), "ok", NoElem,
                             iter.kind = "values")
       ELSE /\ UNCHANGED <<iter, calls>>
            /\ collected' = Nil
            /\ ret' = Result("collect_into_labeled_hlist_src", Len(iter.list), "rejected",
                             NoElem, iter.kind = "values")
    /\ item' = <<>>
    /\ labelList' = Nil
    /\ UNCHANGED <<counter, labels, list, lhs, rhs>>
    /\ UNCHANGED mintVars

\* Short lists, mapped and collected with the src/src revision.
NextSrc ==
    \/ Declare(MaxMapLabels)
    \/ \E L \in Declared, v \in Values : ConsShort(L, v)
    \/ Iter
    \/ IterValues
    \/ \E f \in MapFuncs : Map(f)
    \/ CollectLabeledSrc

SpecSrc == Init /\ [][NextSrc]_vars

\* One of three sets a, b, c (kept in lhs, rhs and list) grows by prepend.
PrependIn(k, L, v) ==
    /\ Len(lhs) + Len(rhs) + Len(list) < MaxSetLen
    /\ LET self == <<lhs, rhs, list>>[k]
           h == LabeledValue(L, v)
       IN IF prepend_bounds(self, h)
          THEN LET c == prepend(self, h)
               IN /\ lhs' = IF k = 1 THEN cons(c.head, c.tail) ELSE lhs
                  /\ rhs' = IF k = 2 THEN cons(c.head, c.tail) ELSE rhs
                  /\ list' = IF k = 3 THEN cons(c.head, c.tail) ELSE list
                  /\ ret' = Result("prepend", L, "ok", h, k = 1)
          ELSE /\ UNCHANGED <<lhs, rhs, list>>
               /\ ret' = Result("prepend", L, "rejected", h, k = 1)
    /\ UNCHANGED <<counter, labels>>
    /\ UNCHANGED <<iterVars, mintVars>>

\* let x = a.clone().union(b.clone()).union(c.clone());
\* let y = a.union(b.union(c));
\* x is kept in lhs and y in rhs (Nil for one that is rejected); ret.status
\* tells whether the unions of x were accepted and ret.flag whether those of
\* y were, ret.target is the length of a and ret.elem the head of c.
Union3 ==
    LET a == lhs
        b == rhs
        c == list
        okx == union_bounds(a, b) /\ union_bounds(union(a, b), c)
        oky == union_bounds(b, c) /\ union_bounds(a, union(b, c))
    IN /\ lhs' = IF okx THEN union(union(a, b), c) ELSE Nil
       /\ rhs' = IF oky THEN union(a, union(b, c)) ELSE Nil
       /\ list' = Nil
       /\ ret' = Result("union3", Len(a), IF okx THEN "ok" ELSE "rejected",
                        IF c = Nil THEN NoElem ELSE Head(c), oky)
       /\ UNCHANGED <<counter, labels>>
       /\ UNCHANGED <<iterVars, mintVars>>

\* Three ordered sets and their two nested unions.
NextAssoc ==
    \/ Declare(MaxLabels)
    \/ \E k \in 1..3, L \in Declared, v \in Values : PrependIn(k, L, v)
    \/ Union3

SpecAssoc == Init /\ [][NextAssoc]_vars

----------------------------------------------------------------------------
(* Properties *)

\* Some element of l carries label T.
Occurs(l, T) == \E i \in 1..Len(l) : l[i].label = T

\* No two elements of l carry the same label.
PairwiseDistinct(l) ==
    \A i, j \in 1..Len(l) : i # j => l[i].label # l[j].label

\* No label is carried by an element of a and by an element of b.
Disjoint(a, b) ==
    \A i \in 1..Len(a), j \in 1..Len(b) : a[i].label # b[j].label

\* C1: the id() values of all labels declared so far are pairwise distinct.
C1_DistinctIds ==
    \A L, M \in Declared : L # M => id(L) # id(M)

C1_Witness == ret.op = "label" /\ Len(labels) >= 4

\* C2: LabelEq<M> on L is True exactly when L and M have the same Uid: True
\* for a label against itself, False for two distinct declarations, and the
\* same in both argument orders.
C2_LabelEq ==
    /\ \A L, M \in Declared :
          /\ LabelEq(L, M) \in {"True", "False"}
          /\ (LabelEq(L, M) = "True") <=> (Uid(L) = Uid(M))
          /\ (LabelEq(L, M) = "True") <=> (L = M)
          /\ LabelEq(L, M) = LabelEq(M, L)
    /\ ret.op = "label_eq" => ret.flag = (ret.target = ret.elem.label)

C2_Witness ==
    /\ ret.op = "label_eq"
    /\ ~ret.flag
    /\ id(ret.target) = 3
    /\ id(ret.elem.label) = 2

\* C3: Member, has_label and has_label_typearg are true exactly when some
\* element of the list carries the target label; false for Nil.
C3_Member ==
    /\ \A T \in Declared :
          /\ VALUE(Member(list, T)) = Occurs(list, T)
          /\ has_label(list, T) = Occurs(list, T)
          /\ has_label_typearg(list, T) = Occurs(list, T)
          /\ Member(Nil, T) = "False"
          /\ ~has_label(Nil, T)
          /\ ~has_label_typearg(Nil, T)
    /\ ret.op = "has_label" => ret.flag = Occurs(list, ret.target)

C3_Witness ==
    /\ ret.op = "has_label"
    /\ ret.flag
    /\ Len(list) = 3
    /\ list[3].label = ret.target
    /\ list[1].label # ret.target
    /\ list[2].label # ret.target

\* C4: in a list with pairwise distinct labels, elem of a label that occurs
\* returns the element carrying it and value returns that element's payload,
\* at whatever position the element is.
C4_Lookup ==
    PairwiseDistinct(list) =>
        \A i \in 1..Len(list) :
            LET T == list[i].label
            IN /\ elem(list, T) = list[i]
               /\ value(list, T) = list[i].value
               /\ (ret.op = "elem" /\ ret.target = T) =>
                      (ret.status = "ok" /\ ret.elem = list[i])
               /\ (ret.op = "value" /\ ret.target = T) =>
                      (ret.status = "ok" /\ ret.elem.value = list[i].value)

C4_Witness ==
    /\ ret.op = "value"
    /\ ret.status = "ok"
    /\ Len(list) = 3
    /\ PairwiseDistinct(list)
    /\ list[3].label = ret.target
    /\ ret.elem.value
    /\ ~list[1].value
    /\ ~list[2].value

\* C5: a write through value_mut, elem_mut or list[B] = v changes only the
\* element labeled B: value::<B>() then returns the written value, no other
\* payload changes, and labels, order and length stay as they were.
C5_WriteFrame ==
    [][(ret'.op \in {"value_mut", "elem_mut", "index_mut"} /\ ret'.status = "ok") =>
          LET B == ret'.target
              v == ret'.elem.value
          IN /\ value(list', B) = v
             /\ Len(list') = Len(list)
             /\ \A i \in 1..Len(list) : list'[i].label = list[i].label
             /\ \A i \in 1..Len(list) :
                    list[i].label # B => list'[i].value = list[i].value
             /\ \A i, j \in 1..Len(list) :
                    (list'[i] # list[i] /\ list'[j] # list[j]) => i = j
      ]_vars

C5_Witness ==
    /\ ret.op = "value_mut"
    /\ ret.status = "ok"
    /\ Len(list) = 3
    /\ list[2].label = ret.target
    /\ list[1].label # ret.target
    /\ list[3].label # ret.target
    /\ list[2].value = ret.elem.value
    /\ list[1].value # list[2].value
    /\ list[3].value # list[2].value

C7_OrderedSet ==
    \A s \in {lhs, rhs} :
        /\ PairwiseDistinct(s)
        /\ OrderedHSet(s)
        /\ \A L \in Declared :
              LET c == cons(LabeledValue(L, FALSE), s)
              IN /\ OrderedHSet(c) <=> PairwiseDistinct(c)
                 /\ OrderedHSet(c) <=> (OrderedHSet(s) /\ ~Occurs(s, L))

C7_Witness ==
    /\ ret.op = "union"
    /\ ret.status = "ok"
    /\ ret.target = 1
    /\ Len(lhs) = 3

\* C8: prepend(h) is accepted only if no element of the set carries h's
\* label; accepted, the result has h as head and the set as tail; rejected,
\* it produces no list.
C8_Prepend ==
    [][ret'.op = "prepend" =>
          LET self == IF ret'.flag THEN lhs ELSE rhs
              out == IF ret'.flag THEN lhs' ELSE rhs'
              h == ret'.elem
          IN /\ (ret'.status = "ok") <=> ~Occurs(self, h.label)
             /\ ret'.status \in {"ok", "rejected"}
             /\ ret'.status = "ok" =>
                    (out # Nil /\ Head(out) = h /\ Tail(out) = self)
             /\ ret'.status = "rejected" => (lhs' = lhs /\ rhs' = rhs)
             /\ ret'.flag => rhs' = rhs
             /\ ~ret'.flag => lhs' = lhs
      ]_vars

C8_Witness ==
    /\ ret.op = "prepend"
    /\ ret.status = "rejected"
    /\ ret.flag
    /\ Len(lhs) = 2
    /\ lhs[2].label = ret.target

\* C9: for label-disjoint ordered sets A and B, A.union(B) is the elements of
\* A in order followed by the elements of B in order, payloads unchanged;
\* Nil.union(B) = B, A.union(Nil) = A, and the length is len(A) + len(B).
C9_Union ==
    [][(ret'.op = "union" /\ ret'.status = "ok") =>
          /\ lhs' = lhs \o rhs
          /\ Len(lhs') = Len(lhs) + Len(rhs)
          /\ lhs = Nil => lhs' = rhs
          /\ rhs = Nil => lhs' = lhs
      ]_vars

C9_Witness ==
    /\ ret.op = "union"
    /\ ret.status = "ok"
    /\ ret.target = 2
    /\ Len(lhs) = 3
    /\ lhs[1].value # lhs[2].value

\* C10: union is accepted exactly when no label occurs in both operands; on
\* a collision it is rejected as a whole and returns no list, never one with
\* an element overwritten or dropped.
C10_UnionRejects ==
    [][ret'.op = "union" =>
          /\ (ret'.status = "ok") <=> Disjoint(lhs, rhs)
          /\ ret'.status \in {"ok", "rejected"}
          /\ ret'.status = "rejected" => (lhs' = lhs /\ rhs' = rhs)
          /\ ret'.status = "ok" =>
                 /\ Len(lhs') = Len(lhs) + Len(rhs)
                 /\ \A i \in 1..Len(lhs) : lhs'[i] = lhs[i]
                 /\ \A j \in 1..Len(rhs) : lhs'[Len(lhs) + j] = rhs[j]
      ]_vars

C10_Witness ==
    /\ ret.op = "union"
    /\ ret.status = "rejected"
    /\ Len(lhs) = 2
    /\ Len(rhs) = 1
    /\ rhs[1].label = lhs[2].label
    /\ rhs[1].value # lhs[2].value

\* The elements of l, as a set.
Elems(l) == {l[i] : i \in 1..Len(l)}

\* C11: union is not commutative: for non-empty label-disjoint ordered sets
\* A and B, A.union(B) and B.union(A) hold the same labeled elements, A's
\* first in the former and B's first in the latter, and are different lists.
C11_UnionNotCommutative ==
    [][(ret'.op = "union" /\ ret'.status = "ok" /\ lhs # Nil /\ rhs # Nil) =>
          LET ab == lhs'
              ba == union(rhs, lhs)
          IN /\ union_bounds(rhs, lhs)
             /\ ab # ba
             /\ Elems(ab) = Elems(ba)
             /\ Len(ab) = Len(ba)
             /\ SubSeq(ab, 1, Len(lhs)) = lhs
             /\ SubSeq(ab, Len(lhs) + 1, Len(ab)) = rhs
             /\ SubSeq(ba, 1, Len(rhs)) = rhs
             /\ SubSeq(ba, Len(rhs) + 1, Len(ba)) = lhs
      ]_vars

C11_Witness ==
    /\ ret.op = "union"
    /\ ret.status = "ok"
    /\ ret.target = 1
    /\ Len(lhs) = 2
    /\ rhs = Nil

\* C12: from list.iter() (or list.iter_values()) the k-th call of next
\* returns the k-th element (its payload) of the list and an iterator over
\* the remaining elements; after LEN calls the iterator stands on Nil, where
\* there is no next; the traversal never modifies the list.
C12_Traversal ==
    [][ret'.op = "next" =>
          /\ list' = list
          /\ (ret'.status = "ok") <=> (iter.list # Nil)
          /\ (ret'.status = "ok") <=> (calls < Len(list))
          /\ ret'.status = "ok" =>
                 /\ calls' = calls + 1
                 /\ iter.kind = "cons" => item' = <<list[calls']>>
                 /\ iter.kind = "values" => item' = <<list[calls'].value>>
                 /\ iter' = with_adapter(iter.kind,
                                         SubSeq(list, calls' + 1, Len(list)), Nil)
                 /\ (calls' = Len(list)) <=> (iter'.list = Nil)
          /\ ret'.status = "rejected" =>
                 (iter' = iter /\ item' = item /\ calls' = calls /\ calls = Len(list))
      ]_vars

C12_Witness ==
    /\ ret.op = "next"
    /\ ret.status = "rejected"
    /\ iter.kind = "values"
    /\ calls = 3
    /\ Len(list) = 3
    /\ item = <<list[3].value>>
    /\ list[3].value # list[2].value

\* C13: iter_values().map(F).collect_into_hlist() on a list of n elements
\* returns an unlabeled list of n elements whose i-th element is F applied to
\* the i-th payload of the list, in the list's order; collecting over Nil
\* returns Nil.
C13_CollectIntoHList ==
    [][ret'.op = "collect_into_hlist" =>
          /\ iter.list = Nil => (ret'.status = "ok" /\ collected' = Nil)
          /\ (iter.kind = "values" /\ Len(iter.adapter) = 1) =>
                 LET F == Head(iter.adapter).f
                     expected(i) == IF F.fn = "Not" THEN ~list[i].value ELSE i
                 IN /\ ret'.status = "ok"
                    /\ list' = list
                    /\ Len(collected') = Len(list)
                    /\ \A i \in 1..Len(list) : collected'[i] = expected(i)
      ]_vars

C13_Witness ==
    /\ ret.op = "collect_into_hlist"
    /\ ret.status = "ok"
    /\ ret.flag
    /\ ret.target = 1
    /\ Len(list) = 2
    /\ list[1].value = FALSE
    /\ list[2].value = TRUE
    /\ collected = <<TRUE, FALSE>>

\* C14: collect_into_labeled_hlist with the target label list T1..Tn on an
\* iterator over a list of n elements returns a labeled list whose i-th
\* element carries label Ti and holds the transformed value of the i-th
\* element of the list, in order; a target label list that is shorter or
\* longer than the list is rejected.
C14_CollectIntoLabeledHList ==
    [][ret'.op = "collect_into_labeled_hlist" =>
          /\ list' = list
          /\ ret'.target # Len(list) => (ret'.status = "rejected" /\ iter' = iter)
          /\ ret'.status = "ok" =>
                 /\ Len(labelList') = ret'.target
                 /\ Len(collected') = Len(list)
                 /\ \A i \in 1..Len(list) :
                        /\ collected'[i].label = labelList'[i]
                        /\ collected'[i].value =
                               adapt(iter.adapter, InputType(iter),
                                     IF iter.kind = "cons" THEN list[i]
                                     ELSE list[i].value).out
      ]_vars

C14_Witness ==
    /\ ret.op = "collect_into_labeled_hlist"
    /\ ret.status = "ok"
    /\ Len(list) = 2
    /\ list[1] = LabeledValue(1, FALSE)
    /\ list[2] = LabeledValue(1, TRUE)
    /\ labelList = <<2, 1>>
    /\ collected = <<LabeledValue(2, TRUE), LabeledValue(1, FALSE)>>

\* C14, the rejected case: a target label list one shorter than the list.
C14_WitnessRejected ==
    /\ ret.op = "collect_into_labeled_hlist"
    /\ ret.status = "rejected"
    /\ Len(list) = 2
    /\ ret.target = 1
    /\ Len(iter.adapter) = 1
    /\ Head(iter.adapter).f.fn = "Not"

\* C15: when several label declarations are expanded concurrently, under
\* every interleaving no two of them obtain the same identifier, whether the
\* identifier is still held by a running expansion or already in a label.
C15_RaceDistinctIds ==
    LET running == {p \in Procs : procs[p].pc = "fetched"}
    IN /\ \A p, q \in running : p # q => procs[p].id # procs[q].id
       /\ \A p \in running, L \in Declared : procs[p].id # id(L)
       /\ \A L, M \in Declared : L # M => id(L) # id(M)

\* Two expansions ran at once and the one that took the greater number
\* finished first.
C15_Witness ==
    /\ Len(labels) = 2
    /\ id(1) = 1
    /\ id(2) = 0
    /\ procs[1].pc = "fetched"
    /\ procs[1].id = 2

\* C16: the counter only ever increases: each declaration receives the
\* counter's value, which is greater than the identifier of every declaration
\* before it, and the counter moves past it, so that no identifier is handed
\* out twice.
C16_Monotonic ==
    [][/\ counter' >= counter
       /\ Len(labels') >= Len(labels)
       /\ Len(labels') > Len(labels) =>
              /\ Len(labels') = Len(labels) + 1
              /\ SubSeq(labels', 1, Len(labels)) = labels
              /\ to_usize(labels'[Len(labels')].uid) = counter
              /\ counter' = counter + 1
              /\ \A L \in Declared : id(L) < to_usize(labels'[Len(labels')].uid)
              /\ \A L \in Declared : id(L) < counter'
      ]_vars

C16_Witness ==
    /\ ret.op = "label"
    /\ counter = 5
    /\ Len(labels) = 5
    /\ id(5) = 4
    /\ id(4) = 3

\* C17: two labels declared in different crates of the same program never
\* have the same Uid.
C17_UniqueAcrossCrates ==
    \A L, M \in Declared : crate_of(L) # crate_of(M) => Uid(L) # Uid(M)

\* C18: LEN of a list is its number of nodes, 0 for Nil and one more than
\* the LEN of the tail for a Cons, and len() returns that number.
C18_Len ==
    /\ LEN(Nil) = 0
    /\ LEN(list) = Cardinality(DOMAIN list)
    /\ list # Nil => LEN(list) = 1 + LEN(Tail(list))
    /\ len(list) = LEN(list)
    /\ ret.op = "len" => ret.target = Cardinality(DOMAIN list)

C18_Witness ==
    /\ ret.op = "len"
    /\ ret.target = 3
    /\ list # Nil
    /\ Tail(list) # Nil
    /\ Tail(Tail(list)) # Nil
    /\ Tail(Tail(Tail(list))) = Nil

\* C19: a label wrapped in LabeledValue or PhantomData has the NAME,
\* AssocType and Uid of the label, so LabelEq between two types is True
\* exactly when they wrap the same label.
C19_WrappersDelegate ==
    /\ \A T \in LabelTypes :
          /\ Label_NAME(T) = NAME(T.label)
          /\ Label_AssocType(T) = AssocType(T.label)
          /\ Label_Uid(T) = Uid(T.label)
          /\ id(T.label) = to_usize(Label_Uid(T))
    /\ \A T, U \in LabelTypes :
          (LabelEq_wrapped(T, U) = "True") <=> (T.label = U.label)
    /\ ret.op = "label_eq_wrapped" => ret.flag = (ret.target.label = ret.elem.label)

\* LabelEq of PhantomData<LabeledValue<L>> and LabeledValue<L> was found
\* True for the second label declared, which has a name of its own.
C19_Witness ==
    /\ ret.op = "label_eq_wrapped"
    /\ ret.flag
    /\ ret.target = Wrapped(<<"PhantomData", "LabeledValue">>, 2)
    /\ ret.elem = Wrapped(<<"LabeledValue">>, 2)
    /\ NAME(2) = "custom"

\* C20: labels() on a labeled list of n elements returns a vector of n
\* names whose i-th entry is the NAME of the label of the i-th element
\* (the empty vector for Nil), and the assertions of build_labels hold.
C20_StrLabels ==
    /\ LET r == static_labels(list)
       IN /\ r.asserts
          /\ Len(r.v) = Len(list)
          /\ \A i \in 1..Len(list) : r.v[i] = NAME(list[i].label)
    /\ ret.op = "labels" =>
          /\ ret.status = "ok"
          /\ ret.target = Len(list)
          /\ ret.elem = [i \in 1..Len(list) |-> NAME(list[i].label)]
    /\ static_labels(Nil).v = <<>>

C20_Witness ==
    /\ ret.op = "labels"
    /\ ret.status = "ok"
    /\ Len(list) = 3
    /\ list[1].label = 3
    /\ list[2].label = 1
    /\ list[3].label = 2
    /\ ret.elem = <<"custom", "Label1", "Label2">>

\* The keys of LabelMeta::parse's match: name, crate, type and assoc_type.
RecognizedKeys ==
    {Tok("ident", "name"), Tok("keyword", "type"), Tok("ident", "assoc_type"),
     Tok("keyword", "crate")}

\* C21: a declaration whose option list contains a key other than the
\* recognized ones is rejected with an error whose message lists the accepted
\* keys, and defines no label.
C21_UnknownKeyListsKeys ==
    [][(ret'.op = "label" /\ \E i \in 1..Len(parsed'.attr) : parsed'.attr[i] \notin RecognizedKeys) =>
          /\ ret'.status = "rejected"
          /\ parsed'.msg = "expected type, assoc_type, crate, or name"
          /\ labels' = labels
      ]_vars

\* The counter values the labels declared so far were minted from: in one
\* process the k-th declaration is minted from k - 1.
Minted == 0..(Len(labels) - 1)

\* C22: id() decodes a label's Uid back to the integer it was minted from:
\* decoding generate_uint(v) gives v, for 0, powers of two and the others.
C22_IdDecodes ==
    /\ \A v \in Minted :
          /\ Uid(v + 1) = generate_uint(v)
          /\ id(v + 1) = v
          /\ to_usize(generate_uint(v)) = v
    /\ ret.op = "id" => ret.target = ret.elem.label - 1

\* id() returned 6 (not a power of two) after it returned what it did for
\* 0 and 4.
C22_Witness ==
    /\ ret.op = "id"
    /\ ret.target = 6
    /\ ret.elem.label = 7
    /\ id(1) = 0
    /\ id(5) = 4

\* Two numerals are the same bit sequence: same length, same bit at every
\* position.
SameBits(a, b) == Len(a) = Len(b) /\ \A i \in 1..Len(a) : a[i] = b[i]

\* C25: for every two counter values a and b, generate_uint(a) and
\* generate_uint(b) are the same bit sequence, and equal as compared bit by
\* bit down to the terminal, if and only if a = b.
C25_NumeralsInjective ==
    /\ \A a, b \in Minted :
          /\ SameBits(generate_uint(a), generate_uint(b)) <=> (a = b)
          /\ (IsEqual(generate_uint(a), generate_uint(b)) = B1) <=> (a = b)
          /\ SameBits(Uid(a + 1), Uid(b + 1)) <=> (a = b)
    /\ ret.op = "label_eq" => ret.flag = SameBits(Uid(ret.target), Uid(ret.elem.label))

\* The numerals of 6 and 5, of the same length, were compared and found
\* different; those of 3 and 4 are declared too.
C25_Witness ==
    /\ ret.op = "label_eq"
    /\ ~ret.flag
    /\ id(ret.target) = 6
    /\ id(ret.elem.label) = 5
    /\ Len(Uid(ret.target)) = Len(Uid(ret.elem.label))
    /\ Len(labels) = 8

\* The binary digits of v, the most significant first; none for 0.
RECURSIVE Digits(_)
Digits(v) == IF v = 0 THEN <<>> ELSE Append(Digits(v \div 2), v % 2)

\* C26: generate_uint(v) emits exactly the binary digits of v from the most
\* significant to the least significant: only the terminal for 0, and for
\* v >= 1 the first emitted bit is 1 and there are as many bits as v has
\* binary digits.
C26_BinaryDigits ==
    \A v \in Minted :
        LET u == Uid(v + 1)
        IN /\ u = Digits(v)
           /\ v = 0 => u = UTerm
           /\ v >= 1 => (u[1] = B1 /\ Len(u) = Len(Digits(v)))

\* The position of the first (head-most) element of l that carries label T;
\* 0 if none does.
First(l, T) ==
    IF \E i \in 1..Len(l) : l[i].label = T
    THEN CHOOSE i \in 1..Len(l) :
             /\ l[i].label = T
             /\ \A j \in 1..(i - 1) : l[j].label # T
    ELSE 0

\* C23: if a list contains a label more than once, elem and value return
\* the leftmost element that carries it, and elem_mut and value_mut modify
\* only that one: later elements with the same label stay as they were.
C23_FirstMatchWins ==
    [][(ret'.status = "ok" /\ ret'.op \in {"elem", "value", "elem_mut", "value_mut"}) =>
          LET T == ret'.target
              f == First(list, T)
          IN /\ f > 0
             /\ ret'.op = "elem" => (ret'.elem = list[f] /\ list' = list)
             /\ ret'.op = "value" => (ret'.elem.value = list[f].value /\ list' = list)
             /\ ret'.op \in {"elem_mut", "value_mut"} =>
                    /\ Len(list') = Len(list)
                    /\ list'[f] = LabeledValue(T, ret'.elem.value)
                    /\ \A i \in 1..Len(list) : i # f => list'[i] = list[i]
      ]_vars

\* value_mut wrote TRUE into the second element of a list whose second and
\* third elements carry the target label; the third still holds FALSE.
C23_Witness ==
    /\ ret.op = "value_mut"
    /\ ret.status = "ok"
    /\ ret.elem.value
    /\ Len(list) = 3
    /\ list[1].label # ret.target
    /\ list[2] = LabeledValue(ret.target, TRUE)
    /\ list[3] = LabeledValue(ret.target, FALSE)

\* The input the iterator gives its adapter for the i-th element of its list.
InputAt(it, i) == IF it.kind = "cons" THEN it.list[i] ELSE it.list[i].value

\* What the functions of adapter chain a, composed from the one attached
\* first (the last of the chain) to the one attached last (its head), make of
\* x in their k-th call.
RECURSIVE Composed(_, _, _, _)
Composed(a, T, x, k) ==
    IF a = Nil THEN x
    ELSE LET inner == Composed(Tail(a), T, x, k)
             Tin == Adapter_Output(Tail(a), T)
         IN CASE Head(a).f.fn = "Count" -> Head(a).f.n + k
              [] Head(a).f.fn = "Yes" -> TRUE
              [] Head(a).f.fn = "Not" ->
                     IF Tin = "&LabeledValue" THEN ~inner.value ELSE ~inner

\* C24: chained maps apply in the order they were attached: next and
\* collect_into_hlist deliver, for every element x, the function attached
\* last applied to the result of the function attached before it, and an
\* iterator with no map delivers x itself.
C24_MapsComposeInOrder ==
    [][/\ (ret'.op = "next" /\ ret'.status = "ok") =>
              item' = <<Composed(iter.adapter, InputType(iter), InputAt(iter, 1), 1)>>
       /\ (ret'.op = "collect_into_hlist" /\ ret'.status = "ok") =>
              /\ Len(collected') = Len(iter.list)
              /\ \A i \in 1..Len(iter.list) :
                     collected'[i] =
                         Composed(iter.adapter, InputType(iter), InputAt(iter, i), i)
      ]_vars

\* next delivered false through map(Yes).map(Not): Not was applied to the
\* result of Yes.
C24_Witness ==
    /\ ret.op = "next"
    /\ ret.status = "ok"
    /\ Len(iter.adapter) = 2
    /\ iter.adapter[1].f.fn = "Not"
    /\ iter.adapter[2].f.fn = "Yes"
    /\ item = <<FALSE>>

\* e is a labeled value that carries label L.
IsLabeled(e, L) == \E v \in Values : ToString(e) = ToString(Labeled(L, v))

\* C27: in the src/src revision, collect_into_labeled_hlist on an iterator
\* over a labeled list of n elements returns n elements each of which is a
\* labeled value carrying the label of the source element at its position.
C27_EveryElementLabeled ==
    [][(ret'.op = "collect_into_labeled_hlist_src" /\ ret'.status = "ok") =>
          /\ Len(collected') = Len(iter.list)
          /\ \A i \in 1..Len(iter.list) :
                 IsLabeled(collected'[i], iter.list[i].label)
      ]_vars

\* C28: the state of a map function is threaded through the traversal: next
\* calls each function of the chain once and hands the called functions on
\* to the iterator it returns, and collect_into_hlist calls the function
\* once per element in list order, each call seeing the state the call
\* before it left, so that a counting function yields n0 + 1, ..., n0 + n.
C28_StateThreaded ==
    [][/\ (ret'.op = "next" /\ ret'.status = "ok") =>
              /\ Len(iter'.adapter) = Len(iter.adapter)
              /\ \A j \in 1..Len(iter.adapter) :
                     /\ iter'.adapter[j].f.fn = iter.adapter[j].f.fn
                     /\ iter'.adapter[j].f.n =
                            IF iter.adapter[j].f.fn = "Count"
                            THEN iter.adapter[j].f.n + 1
                            ELSE iter.adapter[j].f.n
              /\ (iter.adapter # Nil /\ Head(iter.adapter).f.fn = "Count") =>
                     item' = <<Head(iter.adapter).f.n + 1>>
       /\ (/\ ret'.op = "collect_into_hlist"
           /\ ret'.status = "ok"
           /\ iter.adapter # Nil
           /\ Head(iter.adapter).f.fn = "Count") =>
              collected' = [i \in 1..Len(iter.list) |-> Head(iter.adapter).f.n + i]
      ]_vars

\* After one next, the rest of a two-element list was collected through a
\* counting function: it delivered 2.
C28_Witness ==
    /\ ret.op = "collect_into_hlist"
    /\ ret.status = "ok"
    /\ Len(list) = 2
    /\ calls = 2
    /\ ToString(collected) = ToString(<<2>>)

\* C29: union is associative on pairwise label-disjoint ordered sets: for
\* such a, b and c, a.union(b).union(c) and a.union(b.union(c)) are both
\* accepted and are the same list, element for element.
C29_UnionAssociative ==
    [][(/\ ret'.op = "union3"
        /\ OrderedHSet(lhs) /\ OrderedHSet(rhs) /\ OrderedHSet(list)
        /\ Disjoint(lhs, rhs) /\ Disjoint(lhs, list) /\ Disjoint(rhs, list)) =>
          /\ ret'.status = "ok"
          /\ ret'.flag
          /\ Len(lhs') = Len(lhs) + Len(rhs) + Len(list)
          /\ \A i \in 1..Len(lhs') : lhs'[i] = rhs'[i]
          /\ lhs' = rhs'
      ]_vars

\* Both nestings of the union of three one-element sets were accepted and
\* gave the same three-element list, which ends with the element of c.
C29_Witness ==
    /\ ret.op = "union3"
    /\ ret.status = "ok"
    /\ ret.flag
    /\ ret.target = 1
    /\ Len(lhs) = 3
    /\ lhs[3] = ret.elem
    /\ PairwiseDistinct(lhs)
    /\ rhs = lhs

\* C30: a declaration rejected while parsing (an unrecognized key, or an
\* item that is not `struct Name;`) leaves the counter and the labels
\* unchanged; an accepted one receives the counter's value.
C30_RejectedKeepsCounter ==
    [][ret'.op = "label" =>
          /\ (ret'.status = "rejected") <=>
                 \/ \E i \in 1..Len(parsed'.attr) : parsed'.attr[i] \notin RecognizedKeys
                 \/ ~parsed'.unit
          /\ ret'.status = "rejected" => (counter' = counter /\ labels' = labels)
          /\ ret'.status = "ok" =>
                 /\ Len(labels') = Len(labels) + 1
                 /\ to_usize(labels'[Len(labels')].uid) = counter
                 /\ counter' = counter + 1
      ]_vars

\* A declaration was rejected for its item after one was accepted, and the
\* counter still stands at 1.
C30_Witness ==
    /\ ret.op = "label"
    /\ ret.status = "rejected"
    /\ ~parsed.unit
    /\ parsed.attr = <<Tok("ident", "name")>>
    /\ counter = 1
    /\ Len(labels) = 1

====
